---- MODULE Spec2Model ----
(***************************************************************************)
(* Model of the DNS codec and forwarding resolver of src/app/main.go.      *)
(*                                                                         *)
(* Bytes are naturals 0..255.  A Go string or []byte value is a sequence   *)
(* of bytes.  A Go slice handed to the decoder is a record                 *)
(*   [data, len, cap]                                                      *)
(* where data is the written prefix of the backing array (every byte of    *)
(* the backing array past Len(data) is 0, as make() leaves it), len is the *)
(* slice length (index expressions buf[i] fault when i >= len) and cap its *)
(* capacity (slice expressions buf[lo:hi] fault when hi > cap).            *)
(* All offsets are 0-based as in the source.                               *)
(***************************************************************************)
EXTENDS Naturals, Integers, Sequences, FiniteSets, TLC

(***************************************************************************)
(* Program constants.                                                      *)
(***************************************************************************)
HeaderLen == 12
ClientBufSize == 2048
UpstreamBufSize == 10240
\* 0xC0: a length byte at or above it starts a compression pointer.
PointerTag == 192
\* x & 0x3FFF is x modulo 0x4000.
OffsetModulus == 16384
Dot == 46

(***************************************************************************)
(* Bounds of the model.                                                    *)
(***************************************************************************)
\* Number of nested parseLabels calls after which the Go runtime's stack
\* limit is taken to be hit.  Larger than any acyclic pointer chain of the
\* buffers explored.
MaxDepth == 6
\* Longest raw name buffer explored by the codec specification.
MaxBuf == 6
\* Most labels of a name encoded for the round trip.
MaxLabels == 2
\* Most answer records of a message explored by the codec specification.
MaxAnswers == 3

Max(a, b) == IF a >= b THEN a ELSE b

\* F applied to the value of v, with v evaluated once.
With(v, F(_)) == CHOOSE y \in { F(x) : x \in {v} } : TRUE

\* Conversion to the Go type byte.
Byte(x) == x % 256

(***************************************************************************)
(* encoding/binary big-endian helpers.                                      *)
(***************************************************************************)
PutUint16(v) == << (v \div 256) % 256, v % 256 >>

PutUint32(v) ==
  << (v \div 16777216) % 256, (v \div 65536) % 256, (v \div 256) % 256, v % 256 >>

\* The byte at 0-based index i of the backing array.
ByteAt(b, i) == IF i < Len(b.data) THEN b.data[i + 1] ELSE 0

\* buf[i] is in range.
IndexOK(b, i) == i < b.len

\* buf[lo:hi] is in range (Go checks the upper bound against the capacity).
SliceOK(b, lo, hi) == lo <= hi /\ hi <= b.cap

\* The bytes of buf[lo:hi].
SliceBytes(b, lo, hi) == [k \in 1..(hi - lo) |-> ByteAt(b, lo + k - 1)]

Uint16At(b, i) == ByteAt(b, i) * 256 + ByteAt(b, i + 1)

Uint32At(b, i) ==
  ByteAt(b, i) * 16777216 + ByteAt(b, i + 1) * 65536
    + ByteAt(b, i + 2) * 256 + ByteAt(b, i + 3)

(***************************************************************************)
(* strings.Join(labels, ".") and strings.Split(name, ".").                 *)
(***************************************************************************)
RECURSIVE Join(_)
Join(labels) ==
  IF Len(labels) = 0 THEN << >>
  ELSE IF Len(labels) = 1 THEN labels[1]
  ELSE labels[1] \o << Dot >> \o Join(Tail(labels))

\* strings.Split(name, "."): the substrings between consecutive dots, so
\* one more element than there are dots; Split("") = [""].
DotsOf(name) == { k \in 1..Len(name) : name[k] = Dot }

\* Position of the j-th dot for j in 1..n, 0 for j = 0, Len(name)+1 for j = n+1.
DotAt(name, j) ==
  IF j = 0 THEN 0
  ELSE IF j > Cardinality(DotsOf(name)) THEN Len(name) + 1
  ELSE CHOOSE p \in DotsOf(name) : Cardinality({ q \in DotsOf(name) : q < p }) = j - 1

Split(name) ==
  [ j \in 1..(Cardinality(DotsOf(name)) + 1) |->
      SubSeq(name, DotAt(name, j - 1) + 1, DotAt(name, j) - 1) ]

(***************************************************************************)
(* Header codec.                                                            *)
(***************************************************************************)
\* The flag fields are bytes shifted and or-ed; every header the program
\* encodes comes from parseHeader (fields within their bit widths) with QR
\* and ResponseCode overwritten by in-range constants, so the or of the
\* shifted fields is their sum.  Shifts are truncated to 8 bits.
HeaderToBytes(h) ==
  PutUint16(h.ID)
  \o << Byte(Byte(h.QR * 128) + Byte(h.OpCode * 8) + Byte(h.AuthorativeAnswer * 4)
            + Byte(h.Truncation * 2) + h.RecursionDesired),
        Byte(Byte(h.RecursionAvailable * 128) + Byte(h.Reserved * 16)
            + h.ResponseCode) >>
  \o PutUint16(h.QuestionCount)
  \o PutUint16(h.AnswerRecordCount)
  \o PutUint16(h.AuthorativeRecordCount)
  \o PutUint16(h.AdditionalRecordCount)

\* buf[2] and buf[3] are index expressions (checked against len); the other
\* reads are slice expressions (checked against cap).
ParseHeaderOK(b) == IndexOK(b, 3) /\ SliceOK(b, 10, 12)

ParseHeaderFields(b) ==
  [ ID                     |-> Uint16At(b, 0),
    QR                     |-> ByteAt(b, 2) \div 128,
    OpCode                 |-> (ByteAt(b, 2) \div 8) % 16,
    AuthorativeAnswer      |-> (ByteAt(b, 2) \div 4) % 2,
    Truncation             |-> (ByteAt(b, 2) \div 2) % 2,
    RecursionDesired       |-> ByteAt(b, 2) % 2,
    RecursionAvailable     |-> ByteAt(b, 3) \div 128,
    Reserved               |-> (ByteAt(b, 3) \div 16) % 8,
    ResponseCode           |-> ByteAt(b, 3) % 16,
    QuestionCount          |-> Uint16At(b, 4),
    AnswerRecordCount      |-> Uint16At(b, 6),
    AuthorativeRecordCount |-> Uint16At(b, 8),
    AdditionalRecordCount  |-> Uint16At(b, 10) ]

(***************************************************************************)
(* Name encoding shared by Question.ToBytes and Answer.ToBytes: for every  *)
(* element of Split(name) a length byte and the label, then a zero byte.   *)
(***************************************************************************)
RECURSIVE LabelsToBytes(_)
LabelsToBytes(labels) ==
  IF Len(labels) = 0 THEN << >>
  ELSE << Byte(Len(labels[1])) >> \o labels[1] \o LabelsToBytes(Tail(labels))

NameToBytes(name) == LabelsToBytes(Split(name)) \o << 0 >>

RECURSIVE LabelsSize(_)
LabelsSize(labels) ==
  IF Len(labels) = 0 THEN 0 ELSE Len(labels[1]) + 1 + LabelsSize(Tail(labels))

\* make([]byte, bufsize) then in-place writes: bytes written past bufsize
\* would fault, bytes never written stay zero.
FillTo(bytes, size) ==
  [k \in 1..size |-> IF k <= Len(bytes) THEN bytes[k] ELSE 0]

QuestionToBytes(q) ==
  FillTo(NameToBytes(q.Name) \o PutUint16(q.Type) \o PutUint16(q.Class),
         LabelsSize(Split(q.Name)) + 5)

AnswerToBytes(a) ==
  FillTo(NameToBytes(a.Name) \o PutUint16(a.Type) \o PutUint16(a.Class)
           \o PutUint32(a.TTL) \o PutUint16(a.RDLength) \o a.RData,
         LabelsSize(Split(a.Name)) + Len(a.RData) + 11)

(***************************************************************************)
(* Decoder.  Every decoding result carries                                  *)
(*   err : "none", "panic" (Go run-time fault: index or slice bounds out   *)
(*         of range) or "stackoverflow" (Go run-time fatal error: the      *)
(*         goroutine stack limit is exceeded);                             *)
(*   hi  : one past the highest buffer index read so far.                  *)
(* No decoding function of the source returns an error value of its own.   *)
(***************************************************************************)
NoLabels == [err |-> "none", labels |-> << >>, next |-> 0, hi |-> 0]

LabelsFault(kind, hi) == [NoLabels EXCEPT !.err = kind, !.hi = hi]

\* The 14-bit target of the pointer whose first byte is at index i.
PointerOffset(b, i) == Uint16At(b, i) % OffsetModulus

\* Variant of PointerReturn that returns the cursor of the pointed-to name.
PointerReturn_TargetCursor(labels, r, i) ==
  [err |-> "none", labels |-> labels \o r.labels, next |-> r.next, hi |-> r.hi]

\* Lines 138-140: the labels read so far followed by those of the pointed-to
\* name (r), and the caller's cursor just past the 2-byte pointer at i.
PointerReturn(labels, r, i) ==
  [err |-> "none", labels |-> labels \o r.labels, next |-> i + 2, hi |-> r.hi]

\* Lines 142-144: one ordinary label of length n at i.
LabelAt(b, i, n) == SliceBytes(b, i + 1, i + 1 + n)

\* parseLabels from cursor i with the labels read so far; depth counts the
\* enclosing parseLabels calls.
RECURSIVE ParseLabelsFrom(_, _, _, _, _)
ParseLabelsFrom(b, i, labels, depth, hi) ==
  IF ~IndexOK(b, i) THEN LabelsFault("panic", hi)
  ELSE With(ByteAt(b, i), LAMBDA labelLength :
    IF labelLength = 0
      THEN [err |-> "none", labels |-> labels, next |-> i + 1, hi |-> Max(hi, i + 1)]
    ELSE IF labelLength >= PointerTag
      THEN IF ~SliceOK(b, i, i + 2) THEN LabelsFault("panic", Max(hi, i + 1))
           ELSE IF depth + 1 >= MaxDepth THEN LabelsFault("stackoverflow", Max(hi, i + 2))
           ELSE With([offset |-> PointerOffset(b, i), hi |-> Max(hi, i + 2)], LAMBDA c :
                  With(ParseLabelsFrom(b, c.offset, << >>, depth + 1, c.hi), LAMBDA r :
                    IF r.err # "none" THEN r ELSE PointerReturn(labels, r, i)))
    ELSE IF ~SliceOK(b, i + 1, i + 1 + labelLength)
      THEN LabelsFault("panic", Max(hi, i + 1))
    ELSE With([i |-> i + labelLength + 1,
               labels |-> Append(labels, LabelAt(b, i, labelLength)),
               hi |-> Max(hi, i + 1 + labelLength)], LAMBDA c :
           ParseLabelsFrom(b, c.i, c.labels, depth, c.hi)))

ParseLabels(b, start, hi) == ParseLabelsFrom(b, start, << >>, 0, hi)

NoQuestion == [Name |-> << >>, Type |-> 0, Class |-> 0]

\* Lines 153-156, with r the result of parseLabels.
QuestionAfterLabels(b, r) ==
  IF r.err # "none"
    THEN [err |-> r.err, question |-> NoQuestion, next |-> 0, hi |-> r.hi]
  ELSE IF ~SliceOK(b, r.next + 2, r.next + 4)
    THEN [err |-> "panic", question |-> NoQuestion, next |-> 0, hi |-> r.hi]
  ELSE [err |-> "none",
        question |-> [Name |-> Join(r.labels),
                      Type |-> Uint16At(b, r.next),
                      Class |-> Uint16At(b, r.next + 2)],
        next |-> r.next + 4,
        hi |-> Max(r.hi, r.next + 4)]

ParseQuestion(b, start, hi) ==
  With(ParseLabels(b, start, hi), LAMBDA r : QuestionAfterLabels(b, r))

NoAnswer ==
  [Name |-> << >>, Type |-> 0, Class |-> 0, TTL |-> 0, RDLength |-> 0, RData |-> << >>]

\* Lines 162-168, with r the result of parseLabels and rdlen the two bytes
\* at r.next + 8.
AnswerAfterLabels(b, r, rdlen) ==
  IF r.err # "none" THEN [err |-> r.err, answer |-> NoAnswer, hi |-> r.hi]
  ELSE IF ~SliceOK(b, r.next + 8, r.next + 10)
          \/ ~SliceOK(b, r.next + 10, r.next + 10 + rdlen)
    THEN [err |-> "panic", answer |-> NoAnswer, hi |-> r.hi]
  ELSE [err |-> "none",
        answer |-> [Name |-> Join(r.labels),
                    Type |-> Uint16At(b, r.next),
                    Class |-> Uint16At(b, r.next + 2),
                    TTL |-> Uint32At(b, r.next + 4),
                    RDLength |-> rdlen,
                    RData |-> SliceBytes(b, r.next + 10, r.next + 10 + rdlen)],
        hi |-> Max(r.hi, r.next + 10 + rdlen)]

ParseAnswer(b, ansStart, hi) ==
  With(ParseLabels(b, ansStart, hi), LAMBDA r :
    With(Uint16At(b, r.next + 8), LAMBDA rdlen : AnswerAfterLabels(b, r, rdlen)))

\* Lines 177-180: the question loop, cursor-following.
RECURSIVE ParseQuestions(_, _, _, _, _)
ParseQuestions(b, count, nextStart, questions, hi) ==
  IF count = 0
    THEN [err |-> "none", questions |-> questions, next |-> nextStart, hi |-> hi]
  ELSE With(ParseQuestion(b, nextStart, hi), LAMBDA r :
    IF r.err # "none"
      THEN [err |-> r.err, questions |-> questions, next |-> nextStart, hi |-> r.hi]
    ELSE ParseQuestions(b, count - 1, r.next, Append(questions, r.question), r.hi))

\* Lines 181-184: the answer loop.  Every iteration calls
\* parseAnswer(request, nextStart) and nextStart is not assigned in the loop.
ParseAnswers(b, answerCount, nextStart, hi) ==
  IF answerCount = 0 THEN [err |-> "none", answers |-> << >>, hi |-> hi]
  ELSE With(ParseAnswer(b, nextStart, hi), LAMBDA r :
    IF r.err # "none" THEN [err |-> r.err, answers |-> << >>, hi |-> r.hi]
    ELSE [err |-> "none", answers |-> [k \in 1..answerCount |-> r.answer], hi |-> r.hi])

NoHeader ==
  [ ID |-> 0, QR |-> 0, OpCode |-> 0, AuthorativeAnswer |-> 0, Truncation |-> 0,
    RecursionDesired |-> 0, RecursionAvailable |-> 0, Reserved |-> 0,
    ResponseCode |-> 0, QuestionCount |-> 0, AnswerRecordCount |-> 0,
    AuthorativeRecordCount |-> 0, AdditionalRecordCount |-> 0 ]

NoMessage == [Header |-> NoHeader, Question |-> << >>, Answer |-> << >>]

\* Lines 181-189, with header and qs the results of lines 172-180.
RequestAfterQuestions(b, header, qs) ==
  IF qs.err # "none" THEN [err |-> qs.err, msg |-> NoMessage, hi |-> qs.hi]
  ELSE With(ParseAnswers(b, header.AnswerRecordCount, qs.next, qs.hi), LAMBDA as :
    IF as.err # "none" THEN [err |-> as.err, msg |-> NoMessage, hi |-> as.hi]
    ELSE [err |-> "none",
          msg |-> [Header |-> header, Question |-> qs.questions, Answer |-> as.answers],
          hi |-> as.hi])

ParseRequest(b) ==
  IF ~ParseHeaderOK(b) THEN [err |-> "panic", msg |-> NoMessage, hi |-> 0]
  ELSE With(ParseHeaderFields(b), LAMBDA header :
    With(ParseQuestions(b, header.QuestionCount, HeaderLen, << >>, HeaderLen),
         LAMBDA qs : RequestAfterQuestions(b, header, qs)))

(***************************************************************************)
(* State.                                                                   *)
(*                                                                         *)
(* Resolver (main / handleConnection, one request at a time):              *)
(*   pc         position of handleConnection: "recv", "parsed", "forward", *)
(*              "done" (reply assembled and handed to the socket),         *)
(*              "aborted" (early return), "crashed" (run-time fault);      *)
(*   inbound    the datagram read from the client;                         *)
(*   msg        the Message decoded from it (its Header is the one object  *)
(*              every later step mutates and encodes);                     *)
(*   qi         1-based position of the forward loop in msg.Question;      *)
(*   questions, answers   the accumulators of lines 249-250;               *)
(*   upSent     datagrams written to the upstream socket for this request; *)
(*   clientSent datagrams written to the client for this request;          *)
(*   upFailed   an upstream round trip of this request returned an error;  *)
(*   fault      the run-time fault that ended the process, or "none";      *)
(*   readHi     one past the highest index read while decoding inbound.    *)
(*                                                                         *)
(* Codec harness (the decoding functions applied to chosen inputs):        *)
(*   cop        "idle", "labels", "roundtrip" or "message";                *)
(*   cbuf, cstart  the slice and start offset decoded;                     *)
(*   cq         the Question encoded for the round trip;                   *)
(*   rl, rq, rm results of ParseLabels, ParseQuestion, ParseRequest.       *)
(***************************************************************************)
VARIABLES pc, inbound, msg, qi, questions, answers, upSent, clientSent,
          upFailed, fault, readHi,
          cop, cbuf, cstart, cq, rl, rq, rm

resolverVars ==
  << pc, inbound, msg, qi, questions, answers, upSent, clientSent,
     upFailed, fault, readHi >>

codecVars == << cop, cbuf, cstart, cq, rl, rq, rm >>

vars == << resolverVars, codecVars >>

NoBuf == [data |-> << >>, len |-> 0, cap |-> 0]

NoQuestionResult == [err |-> "none", question |-> NoQuestion, next |-> 0, hi |-> 0]

NoRequestResult == [err |-> "none", msg |-> NoMessage, hi |-> 0]

ResolverIdle ==
  /\ pc = "recv"
  /\ inbound = << >>
  /\ msg = NoMessage
  /\ qi = 0
  /\ questions = << >>
  /\ answers = << >>
  /\ upSent = << >>
  /\ clientSent = << >>
  /\ upFailed = FALSE
  /\ fault = "none"
  /\ readHi = 0

CodecIdle ==
  /\ cop = "idle"
  /\ cbuf = NoBuf
  /\ cstart = 0
  /\ cq = NoQuestion
  /\ rl = NoLabels
  /\ rq = NoQuestionResult
  /\ rm = NoRequestResult

Init == ResolverIdle /\ CodecIdle

(***************************************************************************)
(* Inputs of the resolver: datagrams a client can send and datagrams the   *)
(* upstream server can answer with.                                        *)
(***************************************************************************)
\* 12 header bytes with ID 0x1234.
WireHeader(b2, b3, qd, an, ns, ar) ==
  << 18, 52, b2, b3 >> \o PutUint16(qd) \o PutUint16(an) \o PutUint16(ns) \o PutUint16(ar)

\* Question "a" A IN, the root question, a question whose name is a pointer
\* to offset 12.
WireQA == << 1, 97, 0, 0, 1, 0, 1 >>
WireQRoot == << 0, 0, 1, 0, 1 >>
WireQPtr == << 192, 12, 0, 1, 0, 1 >>

\* Question sections: [qd |-> declared QuestionCount, body |-> bytes].
ClientBodies ==
  { [qd |-> 0, body |-> << >>],
    [qd |-> 1, body |-> WireQA],
    [qd |-> 1, body |-> WireQRoot],
    [qd |-> 2, body |-> WireQA \o WireQPtr],
    [qd |-> 2, body |-> WireQA],                        \* count exceeds content
    [qd |-> 1, body |-> << 10, 97, 98, 99, 100, 101 >>], \* cut inside a label
    [qd |-> 1, body |-> << 192, 12, 0, 1, 0, 1 >>],      \* pointer to itself
    [qd |-> 1, body |-> << 255, 255 >>] }                \* pointer past the buffer

\* Flag bytes: RD; OpCode 1 with RD.  Second byte: zero; Reserved 2, RCODE 3.
ClientDatagrams ==
  { WireHeader(b2, b3, cb.qd, c.an, 0, c.ar) \o cb.body :
      b2 \in {1, 9}, b3 \in {0, 35},
      c \in { [an |-> 0, ar |-> 0], [an |-> 1, ar |-> 1] },
      cb \in ClientBodies }

\* Answers: name = pointer to offset 12, type A, class IN, TTL, 4 RDATA bytes.
WireA1 == << 192, 12, 0, 1, 0, 1, 0, 0, 0, 60, 0, 4, 1, 2, 3, 4 >>
WireA2 == << 192, 12, 0, 1, 0, 1, 0, 0, 0, 60, 0, 4, 5, 6, 7, 8 >>

UpstreamReplies ==
  { WireHeader(129, 128, 1, 1, 0, 0) \o WireQA \o WireA1,
    WireHeader(129, 128, 1, 2, 0, 0) \o WireQA \o WireA1 \o WireA2,
    WireHeader(129, 131, 1, 0, 0, 0) \o WireQA,           \* RCODE 3, no answer
    WireHeader(129, 128, 0, 0, 0, 0),                     \* empty sections
    WireHeader(129, 128, 1, 0, 0, 0) \o << 0 >>,          \* cut after the name
    << 18, 52, 129 >> }                                   \* cut inside the header

(***************************************************************************)
(* handleConnection.                                                        *)
(***************************************************************************)
\* Lines 213-223: the datagram is read into a fresh 2048-byte buffer and the
\* whole buffer, not its first n bytes, is handed to parseRequest.
ClientBuffer(d) == [data |-> d, len |-> ClientBufSize, cap |-> ClientBufSize]

Receive(d) ==
  /\ pc = "recv"
  /\ LET r == ParseRequest(ClientBuffer(d)) IN
       /\ inbound' = d
       /\ readHi' = r.hi
       /\ msg' = r.msg
       /\ fault' = r.err
       /\ pc' = IF r.err = "none" THEN "parsed" ELSE "crashed"
  /\ UNCHANGED << qi, questions, answers, upSent, clientSent, upFailed >>
  /\ UNCHANGED codecVars

\* Lines 233-250: the upstream address is parsed and dialled; either can
\* fail, and handleConnection then returns.
Dial(ok) ==
  /\ pc = "parsed"
  /\ pc' = IF ok THEN "forward" ELSE "aborted"
  /\ qi' = IF ok THEN 1 ELSE qi
  /\ UNCHANGED << inbound, msg, questions, answers, upSent, clientSent,
                  upFailed, fault, readHi >>
  /\ UNCHANGED codecVars

\* Lines 254-256: header is msg.Header itself (a pointer copy), so the two
\* assignments write the inbound message's header.
ForwardHeader(h) == [h EXCEPT !.QuestionCount = 1, !.AnswerRecordCount = 0]

\* Lines 194-200: queryDNS serialises the header and msg.Question[0].
QueryBytes(h, q) == HeaderToBytes(h) \o QuestionToBytes(q)

\* Lines 205-209: the reply is read over the bytes of the request in the
\* same 10240-byte buffer and buf[:n] is returned.
ReplyBuffer(req, reply) ==
  [data |-> [k \in 1..Max(Len(req), Len(reply)) |->
               IF k <= Len(reply) THEN reply[k] ELSE req[k]],
   len |-> Len(reply),
   cap |-> UpstreamBufSize]

\* Variant of QueryFailed that skips the question and goes on with the loop.
QueryFailed_Continue ==
  /\ pc' = pc
  /\ qi' = qi + 1
  /\ UNCHANGED << questions, answers, clientSent, fault >>

\* Lines 262-265: queryDNS returned an error; handleConnection returns.
QueryFailed ==
  /\ pc' = "aborted"
  /\ UNCHANGED << qi, questions, answers, clientSent, fault >>

\* One iteration of the loop of lines 252-274 in which udpConn.Write fails.
ForwardWriteError ==
  /\ pc = "forward"
  /\ qi <= Len(msg.Question)
  /\ msg' = [msg EXCEPT !.Header = ForwardHeader(msg.Header)]
  /\ upFailed' = TRUE
  /\ QueryFailed
  /\ UNCHANGED << inbound, upSent, readHi >>
  /\ UNCHANGED codecVars

\* One iteration in which the request is written and udpConn.Read fails.
ForwardReadError ==
  /\ pc = "forward"
  /\ qi <= Len(msg.Question)
  /\ msg' = [msg EXCEPT !.Header = ForwardHeader(msg.Header)]
  /\ upSent' = Append(upSent, QueryBytes(ForwardHeader(msg.Header), msg.Question[qi]))
  /\ upFailed' = TRUE
  /\ QueryFailed
  /\ UNCHANGED << inbound, readHi >>
  /\ UNCHANGED codecVars

\* One iteration in which the upstream answers with datagram reply.
ForwardReply(reply) ==
  /\ pc = "forward"
  /\ qi <= Len(msg.Question)
  /\ LET header == ForwardHeader(msg.Header)
         req == QueryBytes(header, msg.Question[qi])
         r == ParseRequest(ReplyBuffer(req, reply))
     IN
       /\ msg' = [msg EXCEPT !.Header = header]
       /\ upSent' = Append(upSent, req)
       /\ fault' = r.err
       /\ IF r.err = "none"
            THEN /\ questions' = questions \o r.msg.Question
                 /\ answers' = answers \o r.msg.Answer
                 /\ qi' = qi + 1
                 /\ pc' = pc
            ELSE /\ pc' = "crashed"
                 /\ UNCHANGED << questions, answers, qi >>
  /\ UNCHANGED << inbound, clientSent, upFailed, readHi >>
  /\ UNCHANGED codecVars

\* Variant of ReplyHeader that leaves the counts of the last forwarded request.
ReplyHeader_StaleCounts(h, nq, na) ==
  [h EXCEPT !.QR = 1,
            !.ResponseCode = IF h.OpCode # 0 THEN 4 ELSE 0]

\* Variant of ReplyHeader that does not reset ResponseCode to 0.
ReplyHeader_KeepsRcode(h, nq, na) ==
  [h EXCEPT !.QR = 1,
            !.ResponseCode = IF h.OpCode # 0 THEN 4 ELSE h.ResponseCode,
            !.QuestionCount = nq % 65536,
            !.AnswerRecordCount = na % 65536]

\* Lines 276-282: the reply header is the inbound header object, mutated.
ReplyHeader(h, nq, na) ==
  [h EXCEPT !.QR = 1,
            !.ResponseCode = IF h.OpCode # 0 THEN 4 ELSE 0,
            !.QuestionCount = nq % 65536,
            !.AnswerRecordCount = na % 65536]

RECURSIVE QuestionsToBytes(_)
QuestionsToBytes(qs) ==
  IF Len(qs) = 0 THEN << >> ELSE QuestionToBytes(qs[1]) \o QuestionsToBytes(Tail(qs))

RECURSIVE AnswersToBytes(_)
AnswersToBytes(as) ==
  IF Len(as) = 0 THEN << >> ELSE AnswerToBytes(as[1]) \o AnswersToBytes(Tail(as))

\* Lines 275-293.
ResponseBytes(h, qs, as) ==
  HeaderToBytes(h) \o QuestionsToBytes(qs) \o AnswersToBytes(as)

\* Lines 275-299: after the loop the reply is assembled and written to the
\* client; a failed write is logged and nothing is sent.
Reply(ok) ==
  /\ pc = "forward"
  /\ qi > Len(msg.Question)
  /\ LET h == ReplyHeader(msg.Header, Len(questions), Len(answers)) IN
       /\ msg' = [msg EXCEPT !.Header = h]
       /\ clientSent' = IF ok THEN Append(clientSent, ResponseBytes(h, questions, answers))
                        ELSE clientSent
  /\ pc' = "done"
  /\ UNCHANGED << inbound, qi, questions, answers, upSent, upFailed, fault, readHi >>
  /\ UNCHANGED codecVars

\* Lines 316-318: handleConnection returned; main calls it again with
\* nothing carried over from the request.
Return ==
  /\ pc \in {"done", "aborted"}
  /\ pc' = "recv"
  /\ inbound' = << >>
  /\ msg' = NoMessage
  /\ qi' = 0
  /\ questions' = << >>
  /\ answers' = << >>
  /\ upSent' = << >>
  /\ clientSent' = << >>
  /\ upFailed' = FALSE
  /\ fault' = "none"
  /\ readHi' = 0
  /\ UNCHANGED codecVars

Next ==
  \/ \E d \in ClientDatagrams : Receive(d)
  \/ \E ok \in BOOLEAN : Dial(ok)
  \/ ForwardWriteError
  \/ ForwardReadError
  \/ \E reply \in UpstreamReplies : ForwardReply(reply)
  \/ \E ok \in BOOLEAN : Reply(ok)
  \/ Return

Spec == Init /\ [][Next]_vars

(***************************************************************************)
(* Codec harness: the decoding functions applied to inputs drawn from      *)
(* bounded sets.  A slice is handed over the way handleConnection hands    *)
(* the client buffer ("client": len = cap = 2048, zero past the data) or   *)
(* the way queryDNS returns the reply ("upstream": len = n, cap = 10240).  *)
(***************************************************************************)
Styles == {"client", "upstream"}

StyledBuffer(data, style) ==
  IF style = "client" THEN ClientBuffer(data)
  ELSE [data |-> data, len |-> Len(data), cap |-> UpstreamBufSize]

\* Name bytes: terminator, label lengths 1 and 2 (also label content and
\* pointer targets), and the pointer tag 0xC0.
NameBytes == {0, 1, 2, PointerTag}

NameBuffers == UNION { [1..n -> NameBytes] : n \in 1..MaxBuf }

\* Questions for the round trip: names of up to MaxLabels labels, among them
\* the root name and a 63-byte label.
LongLabel == [k \in 1..63 |-> 97]

RoundTripLabels == { << 97 >>, << 97, 98 >>, LongLabel }

RoundTripNames ==
  { Join(ls) : ls \in UNION { [1..n -> RoundTripLabels] : n \in 0..MaxLabels } }

RoundTripQuestions ==
  { [Name |-> n, Type |-> t, Class |-> c] :
      n \in RoundTripNames, t \in {1, 255, 256, 65535}, c \in {1, 255} }

\* Messages: a header declaring qd questions and an answers, the question
\* section and up to MaxAnswers answer records in wire order.
WireA3 == << 1, 97, 0, 0, 5, 0, 1, 0, 0, 1, 44, 0, 2, 192, 12 >>

AnswerWires == { WireA1, WireA2, WireA3 }

RECURSIVE Flatten(_)
Flatten(ss) == IF Len(ss) = 0 THEN << >> ELSE ss[1] \o Flatten(Tail(ss))

AnswerSections ==
  { Flatten(ws) : ws \in UNION { [1..n -> AnswerWires] : n \in 0..MaxAnswers } }

MessageDatagrams ==
  { WireHeader(129, 128, qs.qd, an, 0, 0) \o qs.body \o asec :
      qs \in { [qd |-> 0, body |-> << >>], [qd |-> 1, body |-> WireQA] },
      an \in 0..MaxAnswers,
      asec \in AnswerSections }

\* parseLabels(buf, start).
DecodeName(data, start, style) ==
  /\ cop = "idle"
  /\ cop' = "labels"
  /\ cbuf' = StyledBuffer(data, style)
  /\ cstart' = start
  /\ rl' = ParseLabels(StyledBuffer(data, style), start, 0)
  /\ UNCHANGED << cq, rq, rm >>
  /\ UNCHANGED resolverVars

\* parseQuestion(q.ToBytes(), 0).
RoundTrip(q) ==
  /\ cop = "idle"
  /\ cop' = "roundtrip"
  /\ cq' = q
  /\ cbuf' = [data |-> QuestionToBytes(q), len |-> Len(QuestionToBytes(q)),
              cap |-> Len(QuestionToBytes(q))]
  /\ cstart' = 0
  /\ rq' = ParseQuestion(cbuf', 0, 0)
  /\ UNCHANGED << rl, rm >>
  /\ UNCHANGED resolverVars

\* parseRequest(buf).
DecodeMessage(data, style) ==
  /\ cop = "idle"
  /\ cop' = "message"
  /\ cbuf' = StyledBuffer(data, style)
  /\ cstart' = 0
  /\ rm' = ParseRequest(StyledBuffer(data, style))
  /\ UNCHANGED << cq, rl, rq >>
  /\ UNCHANGED resolverVars

\* The harness applies one function to one input.
DecodeSomeName ==
  /\ cop = "idle"
  /\ \E data \in NameBuffers, style \in Styles :
       \E start \in 0..(Len(data) - 1) : DecodeName(data, start, style)

RoundTripSomeQuestion ==
  /\ cop = "idle"
  /\ \E q \in RoundTripQuestions : RoundTrip(q)

DecodeSomeMessage ==
  /\ cop = "idle"
  /\ \E data \in MessageDatagrams, style \in Styles : DecodeMessage(data, style)

CodecNext == DecodeSomeName \/ RoundTripSomeQuestion \/ DecodeSomeMessage

CodecSpec == Init /\ [][CodecNext]_vars

(***************************************************************************)
(* Reference definitions used to state the properties of the codec.        *)
(***************************************************************************)
\* A well-formed label length.
OrdinaryLength(n) == 1 <= n /\ n <= 63

\* The received bytes of a slice, as a 0-based lookup, and their number.
Received(b) == Len(b.data)

\* The ordinary labels stored from offset i on, up to the first byte that is
\* not an ordinary length: [labels, stop], stop being the offset of that
\* byte, or Received(b) when a label runs past the received bytes.
RECURSIVE OrdinaryLabels(_, _)
OrdinaryLabels(b, i) ==
  IF i >= Received(b) THEN [labels |-> << >>, stop |-> Received(b)]
  ELSE IF ~OrdinaryLength(ByteAt(b, i)) THEN [labels |-> << >>, stop |-> i]
  ELSE IF i + 1 + ByteAt(b, i) > Received(b) THEN [labels |-> << >>, stop |-> Received(b)]
  ELSE With(OrdinaryLabels(b, i + 1 + ByteAt(b, i)), LAMBDA rest :
         [labels |-> << SliceBytes(b, i + 1, i + 1 + ByteAt(b, i)) >> \o rest.labels,
          stop |-> rest.stop])

\* A well-formed pointer-free name is stored at offset i: ordinary labels
\* ended by a zero byte, all inside the received bytes.
PlainNameAt(b, i) ==
  /\ OrdinaryLabels(b, i).stop < Received(b)
  /\ ByteAt(b, OrdinaryLabels(b, i).stop) = 0

\* A 2-byte pointer is stored at offset a, inside the received bytes.
PointerAt(b, a) == a + 2 <= Received(b) /\ ByteAt(b, a) >= PointerTag

\* The name at offset s is zero or more ordinary labels, then a pointer to a
\* well-formed pointer-free name.
CompressedNameAt(b, s) ==
  /\ PointerAt(b, OrdinaryLabels(b, s).stop)
  /\ PlainNameAt(b, PointerOffset(b, OrdinaryLabels(b, s).stop))

\* The offsets at which the resolution of the name at offset i reads a
\* length byte come back to an offset already in seen.
RECURSIVE Revisits(_, _, _)
Revisits(b, i, seen) ==
  IF i \in seen THEN TRUE
  ELSE IF i >= b.len \/ ByteAt(b, i) = 0 THEN FALSE
  ELSE IF ByteAt(b, i) >= PointerTag
    THEN Revisits(b, PointerOffset(b, i), seen \cup {i})
  ELSE Revisits(b, i + 1 + ByteAt(b, i), seen \cup {i})

CyclicNameAt(b, s) == Revisits(b, s, {})

\* One past the last byte of the record decoded at offset start.
RecordEnd(b, start) ==
  ParseLabels(b, start, 0).next + 10 + Uint16At(b, ParseLabels(b, start, 0).next + 8)

\* n records decoded one after the other from offset start, each starting
\* where the one before ended: [ok, answers], ok when every one of them is
\* decoded without fault from received bytes.
RECURSIVE SequentialAnswers(_, _, _)
SequentialAnswers(b, start, n) ==
  IF n = 0 THEN [ok |-> TRUE, answers |-> << >>]
  ELSE With(ParseAnswer(b, start, 0), LAMBDA r :
    IF r.err # "none" \/ r.hi > Received(b) THEN [ok |-> FALSE, answers |-> << >>]
    ELSE With(SequentialAnswers(b, RecordEnd(b, start), n - 1), LAMBDA rest :
           [ok |-> rest.ok, answers |-> << r.answer >> \o rest.answers]))

\* Offset just past the question section of the message in b.
QuestionsEnd(b) ==
  ParseQuestions(b, ParseHeaderFields(b).QuestionCount, HeaderLen, << >>, HeaderLen).next

(***************************************************************************)
(* C1.  parseRequest decodes the answer section sequentially: when the     *)
(* header declares n >= 2 answers and the answer section holds n           *)
(* well-formed records, the k-th decoded Answer is the record that starts  *)
(* where the (k-1)-th ended.                                               *)
(***************************************************************************)
C1_AnswersSequential ==
  (/\ cop = "message"
   /\ ParseHeaderFields(cbuf).AnswerRecordCount >= 2
   /\ SequentialAnswers(cbuf, QuestionsEnd(cbuf),
                        ParseHeaderFields(cbuf).AnswerRecordCount).ok)
  => /\ rm.err = "none"
     /\ rm.msg.Answer = SequentialAnswers(cbuf, QuestionsEnd(cbuf),
                                          ParseHeaderFields(cbuf).AnswerRecordCount).answers

\* What parseRequest returns instead: every decoded Answer is the record
\* stored right after the question section.
AnswersAllFirst ==
  (cop = "message" /\ rm.err = "none")
  => \A k \in 1..Len(rm.msg.Answer) :
       rm.msg.Answer[k] = ParseAnswer(cbuf, QuestionsEnd(cbuf), 0).answer

(***************************************************************************)
(* C2.  parseLabels ends with a CompressionLoop error whenever the pointer *)
(* chain of the name comes back to an offset already visited.              *)
(***************************************************************************)
C2_CompressionLoop ==
  (cop = "labels" /\ CyclicNameAt(cbuf, cstart)) => rl.err = "CompressionLoop"

\* What parseLabels does instead: it recurses until the stack limit, and
\* only on such names.
CyclicOverflowsStack ==
  cop = "labels" => (CyclicNameAt(cbuf, cstart) <=> rl.err = "stackoverflow")

(***************************************************************************)
(* C4.  Question round trip: parseQuestion(q.ToBytes(), 0) returns q and   *)
(* the length of the encoding, for every well-formed Question, the root    *)
(* name included.                                                          *)
(***************************************************************************)
C4_QuestionRoundTrip ==
  cop = "roundtrip"
  => /\ rq.err = "none"
     /\ rq.question = cq
     /\ rq.next = Len(cbuf.data)

\* The round trip holds for every question whose name is not the root.
NonRootRoundTrip ==
  (cop = "roundtrip" /\ cq.Name # << >>)
  => /\ rq.err = "none"
     /\ rq.question = cq
     /\ rq.next = Len(cbuf.data)

(***************************************************************************)
(* C9.  Compression pointer: for a name at offset S made of ordinary       *)
(* labels followed by a pointer at offset A to a well-formed pointer-free  *)
(* name at offset B, parseLabels(buf, S) returns the labels before the     *)
(* pointer followed by the labels stored at B, and next offset A + 2.      *)
(***************************************************************************)
C9_PointerDecoding ==
  (cop = "labels" /\ CompressedNameAt(cbuf, cstart))
  => /\ rl.err = "none"
     /\ rl.labels = OrdinaryLabels(cbuf, cstart).labels
                      \o OrdinaryLabels(cbuf, PointerOffset(cbuf, OrdinaryLabels(cbuf, cstart).stop)).labels
     /\ rl.next = OrdinaryLabels(cbuf, cstart).stop + 2

\* A name with a label before the pointer and a pointed-to name that has a
\* label and does not end where the pointer ends.
C9_Witness ==
  /\ cop = "labels"
  /\ CompressedNameAt(cbuf, cstart)
  /\ OrdinaryLabels(cbuf, cstart).labels # << >>
  /\ OrdinaryLabels(cbuf, PointerOffset(cbuf, OrdinaryLabels(cbuf, cstart).stop)).labels # << >>
  /\ OrdinaryLabels(cbuf, PointerOffset(cbuf, OrdinaryLabels(cbuf, cstart).stop)).stop + 1
       # OrdinaryLabels(cbuf, cstart).stop + 2
  /\ rl.err = "none"

(***************************************************************************)
(* Reference definitions used to state the properties of the resolver.     *)
(***************************************************************************)
\* A datagram as a slice of exactly its bytes.
Exact(d) == [data |-> d, len |-> Len(d), cap |-> Len(d)]

HeaderOf(d) == ParseHeaderFields(Exact(d))

\* The fields of a header other than its four counts.
IdAndFlags(h) ==
  << h.ID, h.QR, h.OpCode, h.AuthorativeAnswer, h.Truncation, h.RecursionDesired,
     h.RecursionAvailable, h.Reserved, h.ResponseCode >>

\* Every datagram handed to a socket for the current request.
Transmitted == { upSent[k] : k \in 1..Len(upSent) } \cup { clientSent[k] : k \in 1..Len(clientSent) }

\* The first question of datagram d declares a label that the datagram ends
\* inside of.
CutInsideLabel(d) ==
  /\ Len(d) > HeaderLen
  /\ HeaderOf(d).QuestionCount >= 1
  /\ OrdinaryLength(d[HeaderLen + 1])
  /\ HeaderLen + 1 + d[HeaderLen + 1] > Len(d)

(***************************************************************************)
(* C3.  Every read made while decoding is checked against the length of    *)
(* the received message: no byte at an index >= that length is read, and a *)
(* message that ends inside a label is rejected with TruncatedInput.       *)
(***************************************************************************)
C3_ReadsBounded ==
  pc # "recv"
  => /\ readHi <= Len(inbound)
     /\ CutInsideLabel(inbound) => fault = "TruncatedInput"

(***************************************************************************)
(* C5.  In every message the resolver transmits, the header's authority    *)
(* and additional counts are 0, the number of such records it encodes.     *)
(***************************************************************************)
C5_NoAuthorityAdditional ==
  \A d \in Transmitted :
    /\ HeaderOf(d).AuthorativeRecordCount = 0
    /\ HeaderOf(d).AdditionalRecordCount = 0

(***************************************************************************)
(* C6.  The i-th upstream request carries QuestionCount 1,                 *)
(* AnswerRecordCount 0, the inbound ID and flags, and exactly the i-th     *)
(* inbound question after the header; a request that is answered to the    *)
(* client sent one upstream request per question.                          *)
(***************************************************************************)
ForwardedHeaderOK(d) ==
  /\ HeaderOf(d).QuestionCount = 1
  /\ HeaderOf(d).AnswerRecordCount = 0
  /\ IdAndFlags(HeaderOf(d)) = IdAndFlags(HeaderOf(inbound))

ForwardedQuestionOK(d, q) ==
  /\ ParseQuestion(Exact(d), HeaderLen, HeaderLen).err = "none"
  /\ ParseQuestion(Exact(d), HeaderLen, HeaderLen).question = q
  /\ ParseQuestion(Exact(d), HeaderLen, HeaderLen).next = Len(d)

C6_ForwardedRequests ==
  /\ Len(upSent) <= Len(msg.Question)
  /\ \A i \in 1..Len(upSent) :
       ForwardedHeaderOK(upSent[i]) /\ ForwardedQuestionOK(upSent[i], msg.Question[i])
  /\ pc = "done" => Len(upSent) = Len(msg.Question)

\* The part of C6 that does not depend on the encoding of the question.
ForwardedHeaders ==
  /\ Len(upSent) <= Len(msg.Question)
  /\ \A i \in 1..Len(upSent) :
       /\ ForwardedHeaderOK(upSent[i])
       /\ SubSeq(upSent[i], HeaderLen + 1, Len(upSent[i])) = QuestionToBytes(msg.Question[i])
  /\ pc = "done" => Len(upSent) = Len(msg.Question)

(***************************************************************************)
(* C7.  Once an upstream round trip of a request has failed, no datagram   *)
(* is sent to the client and no further upstream request is issued for     *)
(* that request.                                                           *)
(***************************************************************************)
C7_UpstreamFailureAborts ==
  [][ /\ upFailed' => clientSent' = << >>
      /\ upFailed => /\ clientSent' = << >>
                     /\ upSent' = upSent \/ upSent' = << >> ]_vars

\* The round trip of a question failed with questions left to forward.
C7_Witness ==
  /\ upFailed
  /\ pc = "aborted"
  /\ qi < Len(msg.Question)
  /\ Len(upSent) = qi

(***************************************************************************)
(* C8.  In the reply sent to the client the header's QuestionCount and     *)
(* AnswerRecordCount are the numbers of accumulated questions and answers, *)
(* whose encodings follow the header.                                      *)
(***************************************************************************)
C8_ReplyCounts ==
  \A k \in 1..Len(clientSent) :
    /\ HeaderOf(clientSent[k]).QuestionCount = Len(questions)
    /\ HeaderOf(clientSent[k]).AnswerRecordCount = Len(answers)
    /\ SubSeq(clientSent[k], HeaderLen + 1, Len(clientSent[k]))
         = QuestionsToBytes(questions) \o AnswersToBytes(answers)

\* A reply merging the replies to two questions, with three answers.
C8_Witness ==
  /\ Len(clientSent) = 1
  /\ Len(msg.Question) = 2
  /\ Len(questions) = 2
  /\ Len(answers) = 3

\* A reply to a request without questions.
C8_WitnessNoQuestion ==
  /\ Len(clientSent) = 1
  /\ Len(msg.Question) = 0

(***************************************************************************)
(* C10.  OpCode policy: a reply sent to the client has QR = 1 and          *)
(* ResponseCode 4 when the inbound OpCode is not 0, and ResponseCode 0     *)
(* when it is 0.                                                           *)
(***************************************************************************)
C10_OpCodePolicy ==
  \A k \in 1..Len(clientSent) :
    /\ HeaderOf(clientSent[k]).QR = 1
    /\ HeaderOf(clientSent[k]).ResponseCode
         = IF HeaderOf(inbound).OpCode # 0 THEN 4 ELSE 0

\* A reply to a request with OpCode 0 and a non-zero ResponseCode, after an
\* upstream reply.
C10_Witness ==
  /\ Len(clientSent) = 1
  /\ HeaderOf(inbound).OpCode = 0
  /\ HeaderOf(inbound).ResponseCode # 0
  /\ Len(upSent) >= 1

\* A reply to a request with a non-zero OpCode.
C10_WitnessOpCode ==
  /\ Len(clientSent) = 1
  /\ HeaderOf(inbound).OpCode # 0

====
